---- MODULE Spec2Model ----
(***************************************************************************)
(* Model of data-engineering/lambda/processor.py: lambda_handler, the S3   *)
(* ObjectCreated handler that reads a GZIP object of newline-delimited     *)
(* JSON, drops user_id, adds processed_ts and writes the result under the  *)
(* processed/ prefix.                                                      *)
(*                                                                         *)
(* Object keys are sequences of one-character strings.  Text (the          *)
(* decompressed file, a line, a written body) is a sequence of lexical     *)
(* tokens: a JSON string literal, a JSON number, a punctuation mark, one   *)
(* whitespace character or one line break is one token each.               *)
(***************************************************************************)
EXTENDS Integers, Sequences, FiniteSets, TLC

VARIABLES
    event,              \* the event passed to lambda_handler
    store,              \* S3: (bucket, key) -> object, for the objects that exist
    clock,              \* the wall clock, microseconds after the base second
    pc,                 \* position in lambda_handler
    i,                  \* index of the current record of event["Records"]
    src_bucket,         \* locals of the loop body (lines 33-86)
    src_key,
    raw_body,
    file_content,
    lines,              \* file_content.splitlines()
    lineNo,             \* index of the current line of the inner loop
    transformed_lines,
    reads,              \* s3.get_object calls issued, in order
    writes,             \* s3.put_object calls issued, in order
    clock_reads,        \* datetime.now readings taken for the current object
    error,              \* the exception that left lambda_handler, "" if none
    result              \* <<>> until lambda_handler returns, then <<value>>

vars ==
    <<event, store, clock, pc, i, src_bucket, src_key, raw_body, file_content,
      lines, lineNo, transformed_lines, reads, writes, clock_reads, error, result>>

(***************************************************************************)
(* Bounds of the model.                                                    *)
(***************************************************************************)
MaxBatch == 3
MaxLines == 3
MaxClock == 1

SeqsUpTo(S, n) ==
    UNION {[1..m -> S] : m \in 0..n}

(***************************************************************************)
(* Python str operations used by the handler.                              *)
(***************************************************************************)
Take(s, n) ==
    SubSeq(s, 1, n)

Drop(s, n) ==
    SubSeq(s, n + 1, Len(s))

startswith(s, p) ==
    Len(s) >= Len(p) /\ Take(s, Len(p)) = p

endswith(s, p) ==
    Len(s) >= Len(p) /\ Drop(s, Len(s) - Len(p)) = p

\* The %XX escapes the model decodes (upper and lower case hex digits).
HexPairs ==
    {<<"2", "F">>, <<"2", "f">>, <<"3", "D">>, <<"3", "d">>,
     <<"2", "B">>, <<"2", "b">>, <<"2", "0">>, <<"2", "5">>}

ByteOf(p) ==
    CASE p \in {<<"2", "F">>, <<"2", "f">>} -> "/"
      [] p \in {<<"3", "D">>, <<"3", "d">>} -> "="
      [] p \in {<<"2", "B">>, <<"2", "b">>} -> "+"
      [] p = <<"2", "0">> -> " "
      [] p = <<"2", "5">> -> "%"

\* urllib.parse.unquote: a % followed by two hex digits becomes the byte they
\* name, any other % is kept as it is.
RECURSIVE unquote(_)
unquote(s) ==
    IF s = <<>> THEN <<>>
    ELSE IF s[1] = "%" /\ Len(s) >= 3 /\ <<s[2], s[3]>> \in HexPairs
         THEN <<ByteOf(<<s[2], s[3]>>)>> \o unquote(Drop(s, 3))
         ELSE <<s[1]>> \o unquote(Drop(s, 1))

\* urllib.parse.unquote_plus: '+' becomes ' ' first, then unquote.
unquote_plus(s) ==
    unquote([j \in 1..Len(s) |-> IF s[j] = "+" THEN " " ELSE s[j]])

LineBreaks ==
    {"\n", "\r\n", "\r"}

Whitespace ==
    {" ", "\t"}

FirstBreak(t) ==
    IF \E j \in 1..Len(t) : t[j] \in LineBreaks
    THEN CHOOSE j \in 1..Len(t) :
            t[j] \in LineBreaks /\ \A k \in 1..(j - 1) : t[k] \notin LineBreaks
    ELSE 0

\* str.splitlines: the pieces between line breaks, without the breaks; no
\* empty piece after a final break.
RECURSIVE splitlines(_)
splitlines(t) ==
    IF t = <<>> THEN <<>>
    ELSE IF FirstBreak(t) = 0 THEN <<t>>
    ELSE <<Take(t, FirstBreak(t) - 1)>> \o splitlines(Drop(t, FirstBreak(t)))

RECURSIVE lstrip(_)
lstrip(s) ==
    IF s # <<>> /\ s[1] \in Whitespace \cup LineBreaks THEN lstrip(Drop(s, 1)) ELSE s

RECURSIVE rstrip(_)
rstrip(s) ==
    IF s # <<>> /\ s[Len(s)] \in Whitespace \cup LineBreaks
    THEN rstrip(Take(s, Len(s) - 1)) ELSE s

\* str.strip
strip(s) ==
    rstrip(lstrip(s))

\* "\n".join(parts)
RECURSIVE join(_)
join(parts) ==
    IF parts = <<>> THEN <<>>
    ELSE IF Len(parts) = 1 THEN parts[1]
    ELSE parts[1] \o <<"\n">> \o join(Drop(parts, 1))

(***************************************************************************)
(* JSON text and Python values.  A scalar value is held as the token       *)
(* json.dumps writes for it; a decoded document is [kind, items] with      *)
(* items the (key, value) pairs of a dict in insertion order, or the       *)
(* ("", value) pairs of a list or scalar.                                  *)
(***************************************************************************)
\* datetime.isoformat of the UTC time t microseconds after the base second:
\* the fraction is left out when the microsecond field is 0.
isoformat(t) ==
    IF t = 0 THEN "\"2025-11-26T00:00:00+00:00\""
    ELSE "\"2025-11-26T00:00:00.00000" \o ToString(t) \o "+00:00\""

UserIdKey ==
    "\"user_id\""

ProcessedTsKey ==
    "\"processed_ts\""

StringToks ==
    {UserIdKey, ProcessedTsKey, "\"x\"", "\"a\"", "\"u1\"", "\"u2\"", "\"old\""}
        \cup {isoformat(t) : t \in 0..MaxClock}

NumberToks ==
    {"1", "2", "42", "2.50", "2.5"}

LiteralToks ==
    {"true", "false", "null"}

ValueToks ==
    StringToks \cup NumberToks \cup LiteralToks

\* The token json.dumps writes for the value json.loads makes of token tok:
\* a float is written in its shortest form.
PyValue(tok) ==
    IF tok = "2.50" THEN "2.5" ELSE tok

IsMembers(m) ==
    \/ m = <<>>
    \/ /\ Len(m) % 4 = 3
       /\ \A j \in 1..Len(m) :
            CASE j % 4 = 1 -> m[j] \in StringToks
              [] j % 4 = 2 -> m[j] = ":"
              [] j % 4 = 3 -> m[j] \in ValueToks
              [] OTHER -> m[j] = ","

IsElements(m) ==
    \/ m = <<>>
    \/ /\ Len(m) % 2 = 1
       /\ \A j \in 1..Len(m) :
            IF j % 2 = 1 THEN m[j] \in ValueToks ELSE m[j] = ","

\* dict.__setitem__: an existing key keeps its position and takes the new
\* value, a new key goes last.
setitem(d, k, v) ==
    IF \E j \in 1..Len(d) : d[j][1] = k
    THEN [j \in 1..Len(d) |-> IF d[j][1] = k THEN <<k, v>> ELSE d[j]]
    ELSE Append(d, <<k, v>>)

KeyIsNot(k, p) ==
    p[1] # k

\* pop that removes nothing.
pop_keeps(d, k) ==
    d

\* dict.pop(k, None), for its effect on the dict.
pop(d, k) ==
    SelectSeq(d, LAMBDA p : KeyIsNot(k, p))

RECURSIVE BuildDict(_, _)
BuildDict(m, d) ==
    IF m = <<>> THEN d
    ELSE BuildDict(Drop(m, 4), setitem(d, m[1], PyValue(m[3])))

RECURSIVE BuildList(_)
BuildList(m) ==
    IF m = <<>> THEN <<>>
    ELSE <<(<<"", PyValue(m[1])>>)>> \o BuildList(Drop(m, 2))

IsInsignificant(c) ==
    c \in Whitespace \cup LineBreaks

\* json.loads on a str: kind is "dict", "list" or "scalar" for a document,
\* "JSONDecodeError" when decoding raises.
loads(s) ==
    LET t == SelectSeq(s, LAMBDA c : ~IsInsignificant(c))
        inner == SubSeq(t, 2, Len(t) - 1)
    IN  IF Len(t) = 1 /\ t[1] \in ValueToks
        THEN [kind |-> "scalar", items |-> <<(<<"", PyValue(t[1])>>)>>]
        ELSE IF Len(t) >= 2 /\ t[1] = "{" /\ t[Len(t)] = "}" /\ IsMembers(inner)
        THEN [kind |-> "dict", items |-> BuildDict(inner, <<>>)]
        ELSE IF Len(t) >= 2 /\ t[1] = "[" /\ t[Len(t)] = "]" /\ IsElements(inner)
        THEN [kind |-> "list", items |-> BuildList(inner)]
        ELSE [kind |-> "JSONDecodeError", items |-> <<>>]

\* json.dumps of a dict with the default separators ", " and ": ".
RECURSIVE DumpItems(_)
DumpItems(d) ==
    IF d = <<>> THEN <<>>
    ELSE <<d[1][1], ":", " ", d[1][2]>>
            \o (IF Len(d) > 1 THEN <<",", " ">> ELSE <<>>)
            \o DumpItems(Drop(d, 1))

dumps(d) ==
    <<"{">> \o DumpItems(d) \o <<"}">>

\* Lines 59-65 for one decoded dict and one clock reading: the output line.
transform(event_obj, now) ==
    dumps(setitem(pop(event_obj, UserIdKey), ProcessedTsKey, isoformat(now)))

\* What event_obj.pop("user_id", None) raises when event_obj is no dict.
PopError(kind) ==
    IF kind = "list" THEN "TypeError" ELSE "AttributeError"

\* dest_key with the suffix written as .json.
dest_key_dot(k) ==
    LET d == IF startswith(k, <<"r", "a", "w", "/">>)
             THEN <<"p", "r", "o", "c", "e", "s", "s", "e", "d", "/">>
                    \o Drop(k, Len(<<"r", "a", "w", "/">>))
             ELSE <<"p", "r", "o", "c", "e", "s", "s", "e", "d", "/">> \o k
    IN  IF endswith(d, <<".", "g", "z">>)
        THEN Take(d, Len(d) - 3) \o <<".", "j", "s", "o", "n">>
        ELSE d

\* dest_key that leaves a key without the raw/ prefix where it is.
dest_key_no_fallback(k) ==
    LET d == IF startswith(k, <<"r", "a", "w", "/">>)
             THEN <<"p", "r", "o", "c", "e", "s", "s", "e", "d", "/">>
                    \o Drop(k, Len(<<"r", "a", "w", "/">>))
             ELSE k
    IN  IF endswith(d, <<".", "g", "z">>)
        THEN Take(d, Len(d) - 3) \o <<"j", "s", "o", "n">>
        ELSE d

\* Lines 73-86: the destination key of a decoded source key.
dest_key(k) ==
    LET d == IF startswith(k, <<"r", "a", "w", "/">>)
             THEN <<"p", "r", "o", "c", "e", "s", "s", "e", "d", "/">>
                    \o Drop(k, Len(<<"r", "a", "w", "/">>))
             ELSE <<"p", "r", "o", "c", "e", "s", "s", "e", "d", "/">> \o k
    IN  IF endswith(d, <<".", "g", "z">>)
        THEN Take(d, Len(d) - 3) \o <<"j", "s", "o", "n">>
        ELSE d

(***************************************************************************)
(* Inputs: object keys as S3 puts them in a notification (URL-encoded),    *)
(* lines of raw files, objects.                                            *)
(***************************************************************************)
\* raw/year%3D2025/month%3D11/day%3D26/file.gz
KeyPartitionedEncoded ==
    <<"r", "a", "w", "/", "y", "e", "a", "r", "%", "3", "D", "2", "0", "2", "5", "/",
      "m", "o", "n", "t", "h", "%", "3", "D", "1", "1", "/", "d", "a", "y", "%", "3", "D",
      "2", "6", "/", "f", "i", "l", "e", ".", "g", "z">>

\* other/path/data.gz
KeyOther ==
    <<"o", "t", "h", "e", "r", "/", "p", "a", "t", "h", "/", "d", "a", "t", "a", ".", "g", "z">>

\* raw/a.gz
KeyRawA ==
    <<"r", "a", "w", "/", "a", ".", "g", "z">>

\* raw%2Fa.gz
KeyRawAEncoded ==
    <<"r", "a", "w", "%", "2", "F", "a", ".", "g", "z">>

\* raw/a.json
KeyRawJson ==
    <<"r", "a", "w", "/", "a", ".", "j", "s", "o", "n">>

\* raw/
KeyRawOnly ==
    <<"r", "a", "w", "/">>

\* raw/.gz
KeyRawDotGz ==
    <<"r", "a", "w", "/", ".", "g", "z">>

\* rawa.gz
KeyNoSlash ==
    <<"r", "a", "w", "a", ".", "g", "z">>

\* a+b.gz
KeyPlus ==
    <<"a", "+", "b", ".", "g", "z">>

\* a%2Bb.gz
KeyPlusEncoded ==
    <<"a", "%", "2", "B", "b", ".", "g", "z">>

\* raw/a.GZ
KeyUpperGz ==
    <<"r", "a", "w", "/", "a", ".", "G", "Z">>

\* raw/a.gz.bak
KeyGzInside ==
    <<"r", "a", "w", "/", "a", ".", "g", "z", ".", "b", "a", "k">>

\* x/raw/a.gz
KeyNestedRaw ==
    <<"x", "/", "r", "a", "w", "/", "a", ".", "g", "z">>

\* processed/ajson
KeyProcessedA ==
    <<"p", "r", "o", "c", "e", "s", "s", "e", "d", "/", "a", "j", "s", "o", "n">>

\* raw/a%zz.gz
KeyBadEscape ==
    <<"r", "a", "w", "/", "a", "%", "z", "z", ".", "g", "z">>

KeysRich ==
    {KeyPartitionedEncoded, KeyOther, KeyRawA, KeyRawAEncoded, KeyRawJson, KeyRawOnly,
     KeyRawDotGz, KeyNoSlash, KeyPlus, KeyPlusEncoded, KeyUpperGz, KeyGzInside,
     KeyNestedRaw, KeyProcessedA, KeyBadEscape}

\* {"user_id":"u1","x":1}
LineU1 ==
    <<"{", "\"user_id\"", ":", "\"u1\"", ",", "\"x\"", ":", "1", "}">>

\* {"a":1}
LineA ==
    <<"{", "\"a\"", ":", "1", "}">>

\*  {"processed_ts": "old", "x": 1, "user_id": "u2", "x": 2.50}<TAB>
LineOld ==
    <<" ", "{", "\"processed_ts\"", ":", " ", "\"old\"", ",", " ", "\"x\"", ":", " ", "1",
      ",", " ", "\"user_id\"", ":", " ", "\"u2\"", ",", " ", "\"x\"", ":", " ", "2.50",
      "}", "\t">>

\* not json
LineNotJson ==
    <<"not", " ", "json">>

\* {"x":
LineTruncated ==
    <<"{", "\"x\"", ":">>

LineBlank ==
    <<" ">>

LineEmpty ==
    <<>>

\* 42
LineNumber ==
    <<"42">>

\* [1]
LineArray ==
    <<"[", "1", "]">>

LinesRich ==
    {LineU1, LineA, LineOld, LineNotJson, LineBlank, LineEmpty, LineNumber, LineArray}

GzipOf(text) ==
    [gzip |-> TRUE, utf8 |-> TRUE, text |-> text]

\* A file of the given lines, each ended by a newline, as Firehose writes it.
FileOf(ls) ==
    IF ls = <<>> THEN <<>> ELSE join(ls) \o <<"\n">>

\* An object that is no GZIP stream, and a GZIP stream that is no UTF-8 text.
NotGzip ==
    [gzip |-> FALSE, utf8 |-> TRUE, text |-> LineA]

NotUtf8 ==
    [gzip |-> TRUE, utf8 |-> FALSE, text |-> <<>>]

ObjectsRich ==
    {GzipOf(FileOf(ls)) : ls \in SeqsUpTo(LinesRich, MaxLines)}
        \cup {GzipOf(LineU1 \o <<"\r\n">> \o LineA), GzipOf(LineTruncated), NotGzip, NotUtf8}

ObjectsSmall ==
    {GzipOf(FileOf(<<LineA>>)), GzipOf(FileOf(<<LineNotJson, LineU1>>)),
     GzipOf(FileOf(<<LineBlank, LineNotJson>>)), GzipOf(FileOf(<<LineNumber>>)),
     NotGzip, NotUtf8}

Notification(b, k) ==
    [bucket |-> b, key |-> k]

NotificationsBatch ==
    {Notification("b1", KeyRawA), Notification("b1", KeyProcessedA),
     Notification("b2", KeyRawA)}

\* An event with a Records entry, and the event without one.
EventOf(records) ==
    [hasRecords |-> TRUE, Records |-> records]

NoRecordsEvent ==
    [hasRecords |-> FALSE, Records |-> <<>>]

\* event.get("Records", [])
Records ==
    IF event.hasRecords THEN event.Records ELSE <<>>

Location(b, k) ==
    <<b, k>>

\* The objects the notifications of event e name.
Locations(e) ==
    {Location(e.Records[n].bucket, unquote_plus(e.Records[n].key)) : n \in 1..Len(e.Records)}

(***************************************************************************)
(* lambda_handler as a state machine.                                      *)
(***************************************************************************)
NoBody ==
    [gzip |-> FALSE, utf8 |-> FALSE, text |-> <<>>]

InitWith(events, objects) ==
    /\ event \in events
    /\ store \in [Locations(event) -> objects]
    /\ clock = 0
    /\ pc = "loop"
    /\ i = 1
    /\ src_bucket = ""
    /\ src_key = <<>>
    /\ raw_body = NoBody
    /\ file_content = <<>>
    /\ lines = <<>>
    /\ lineNo = 1
    /\ transformed_lines = <<>>
    /\ reads = <<>>
    /\ writes = <<>>
    /\ clock_reads = <<>>
    /\ error = ""
    /\ result = <<>>

\* Batches of up to MaxBatch notifications over a few objects.
Init ==
    InitWith({EventOf(r) : r \in SeqsUpTo(NotificationsBatch, MaxBatch)}
                \cup {NoRecordsEvent},
             ObjectsSmall)

\* One notification, any file of up to MaxLines lines.
InitRecords ==
    InitWith({EventOf(<<Notification("b1", KeyRawA)>>), NoRecordsEvent}, ObjectsRich)

\* One notification, any key.
InitKeys ==
    InitWith({EventOf(<<Notification(b, k)>>) : b \in {"b1", "b2"}, k \in KeysRich}
                \cup {EventOf(<<>>)},
             ObjectsSmall)

\* The s3.get_object call of lines 33-38 for the current record.
GetRequest(ok) ==
    [n |-> i,
     Bucket |-> Records[i].bucket,
     Key |-> unquote_plus(Records[i].key),
     ok |-> ok,
     Body |-> IF ok THEN store[Location(Records[i].bucket, unquote_plus(Records[i].key))]
              ELSE NoBody]

\* The s3.put_object call of lines 71-94; src and stamps record the source
\* key and the clock readings the body was made from.
PutRequest(ok) ==
    [n |-> i,
     src |-> src_key,
     Bucket |-> src_bucket,
     Key |-> dest_key(src_key),
     Body |-> join(transformed_lines),
     ContentType |-> "application/json",
     ok |-> ok,
     stamps |-> clock_reads]

\* S3 after put_object: the object is created or replaced.
StoreAfterPut(req) ==
    [loc \in DOMAIN store \cup {Location(req.Bucket, req.Key)} |->
        IF loc = Location(req.Bucket, req.Key)
        THEN [gzip |-> FALSE, utf8 |-> TRUE, text |-> req.Body]
        ELSE store[loc]]

\* Lines 31-39: the next record's object is read.
GetObject ==
    /\ pc = "loop"
    /\ i <= Len(Records)
    /\ Location(Records[i].bucket, unquote_plus(Records[i].key)) \in DOMAIN store
    /\ src_bucket' = Records[i].bucket
    /\ src_key' = unquote_plus(Records[i].key)
    /\ reads' = Append(reads, GetRequest(TRUE))
    /\ raw_body' = GetRequest(TRUE).Body
    /\ pc' = "decompress"
    /\ UNCHANGED <<event, store, clock, i, file_content, lines, lineNo,
                   transformed_lines, writes, clock_reads, error, result>>

\* GetObjectFails with the failure caught and the record skipped.
GetObjectFails_Caught ==
    /\ pc = "loop"
    /\ i <= Len(Records)
    /\ src_bucket' = Records[i].bucket
    /\ src_key' = unquote_plus(Records[i].key)
    /\ reads' = Append(reads, GetRequest(FALSE))
    /\ i' = i + 1
    /\ UNCHANGED <<event, store, clock, pc, raw_body, file_content, lines, lineNo,
                   transformed_lines, writes, clock_reads, error, result>>

\* Lines 31-38: s3.get_object raises (no such key, access denied, network);
\* nothing catches it.
GetObjectFails ==
    /\ pc = "loop"
    /\ i <= Len(Records)
    /\ src_bucket' = Records[i].bucket
    /\ src_key' = unquote_plus(Records[i].key)
    /\ reads' = Append(reads, GetRequest(FALSE))
    /\ error' = "ClientError"
    /\ pc' = "raised"
    /\ UNCHANGED <<event, store, clock, i, raw_body, file_content, lines, lineNo,
                   transformed_lines, writes, clock_reads, result>>

\* Lines 41-48: gunzip, decode, split into lines.
Decompress ==
    /\ pc = "decompress"
    /\ raw_body.gzip /\ raw_body.utf8
    /\ file_content' = raw_body.text
    /\ lines' = splitlines(raw_body.text)
    /\ lineNo' = 1
    /\ transformed_lines' = <<>>
    /\ clock_reads' = <<>>
    /\ pc' = "lines"
    /\ UNCHANGED <<event, store, clock, i, src_bucket, src_key, raw_body, reads,
                   writes, error, result>>

\* Lines 42-43: the body is no GZIP stream, or its content is no UTF-8.
DecompressFails ==
    /\ pc = "decompress"
    /\ ~(raw_body.gzip /\ raw_body.utf8)
    /\ error' = IF raw_body.gzip THEN "UnicodeDecodeError" ELSE "BadGzipFile"
    /\ pc' = "raised"
    /\ UNCHANGED <<event, store, clock, i, src_bucket, src_key, raw_body, file_content,
                   lines, lineNo, transformed_lines, reads, writes, clock_reads, result>>

\* Line 49 and line 54 for the current line.
CurrentLine ==
    strip(lines[lineNo])

CurrentDoc ==
    loads(CurrentLine)

\* SkipLine without the except clause: the decode error leaves the handler.
SkipLine_Uncaught ==
    /\ pc = "lines"
    /\ lineNo <= Len(lines)
    /\ CurrentLine = <<>> \/ CurrentDoc.kind = "JSONDecodeError"
    /\ lineNo' = IF CurrentLine = <<>> THEN lineNo + 1 ELSE lineNo
    /\ pc' = IF CurrentLine = <<>> THEN pc ELSE "raised"
    /\ error' = IF CurrentLine = <<>> THEN error ELSE "JSONDecodeError"
    /\ UNCHANGED <<event, store, clock, i, src_bucket, src_key, raw_body,
                   file_content, lines, transformed_lines, reads, writes, clock_reads,
                   result>>

\* Lines 49-57: a blank line, or one json.loads rejects, is skipped.
SkipLine ==
    /\ pc = "lines"
    /\ lineNo <= Len(lines)
    /\ CurrentLine = <<>> \/ CurrentDoc.kind = "JSONDecodeError"
    /\ lineNo' = lineNo + 1
    /\ UNCHANGED <<event, store, clock, pc, i, src_bucket, src_key, raw_body,
                   file_content, lines, transformed_lines, reads, writes, clock_reads,
                   error, result>>

\* TransformLine with the clock read once per object, for its first record.
TransformLine_OneClockRead ==
    /\ pc = "lines"
    /\ lineNo <= Len(lines)
    /\ CurrentLine # <<>>
    /\ CurrentDoc.kind = "dict"
    /\ clock_reads' = IF clock_reads = <<>> THEN <<clock>> ELSE clock_reads
    /\ transformed_lines' =
         Append(transformed_lines, transform(CurrentDoc.items, clock_reads'[1]))
    /\ lineNo' = lineNo + 1
    /\ UNCHANGED <<event, store, clock, pc, i, src_bucket, src_key, raw_body,
                   file_content, lines, reads, writes, error, result>>

\* Lines 49-65: a line that decodes to a dict is transformed, with the clock
\* read for it.
TransformLine ==
    /\ pc = "lines"
    /\ lineNo <= Len(lines)
    /\ CurrentLine # <<>>
    /\ CurrentDoc.kind = "dict"
    /\ clock_reads' = Append(clock_reads, clock)
    /\ transformed_lines' = Append(transformed_lines, transform(CurrentDoc.items, clock))
    /\ lineNo' = lineNo + 1
    /\ UNCHANGED <<event, store, clock, pc, i, src_bucket, src_key, raw_body,
                   file_content, lines, reads, writes, error, result>>

\* Line 60: the line decodes to something that is no dict; pop raises and
\* nothing catches it.
LineRaises ==
    /\ pc = "lines"
    /\ lineNo <= Len(lines)
    /\ CurrentLine # <<>>
    /\ CurrentDoc.kind \in {"list", "scalar"}
    /\ error' = PopError(CurrentDoc.kind)
    /\ pc' = "raised"
    /\ UNCHANGED <<event, store, clock, i, src_bucket, src_key, raw_body, file_content,
                   lines, lineNo, transformed_lines, reads, writes, clock_reads, result>>

\* SkipWrite without the emptiness test: an empty object is written.
SkipWrite_WritesEmpty ==
    /\ pc = "lines"
    /\ lineNo > Len(lines)
    /\ transformed_lines = <<>>
    /\ writes' = Append(writes, PutRequest(TRUE))
    /\ store' = StoreAfterPut(PutRequest(TRUE))
    /\ i' = i + 1
    /\ pc' = "loop"
    /\ UNCHANGED <<event, clock, src_bucket, src_key, raw_body, file_content, lines,
                   lineNo, transformed_lines, reads, clock_reads, error, result>>

\* Lines 67-69: nothing valid was produced, no object is written.
SkipWrite ==
    /\ pc = "lines"
    /\ lineNo > Len(lines)
    /\ transformed_lines = <<>>
    /\ i' = i + 1
    /\ pc' = "loop"
    /\ UNCHANGED <<event, store, clock, src_bucket, src_key, raw_body, file_content,
                   lines, lineNo, transformed_lines, reads, writes, clock_reads, error,
                   result>>

\* Lines 71-94: the transformed lines are written.
PutObject ==
    /\ pc = "lines"
    /\ lineNo > Len(lines)
    /\ transformed_lines # <<>>
    /\ writes' = Append(writes, PutRequest(TRUE))
    /\ store' = StoreAfterPut(PutRequest(TRUE))
    /\ i' = i + 1
    /\ pc' = "loop"
    /\ UNCHANGED <<event, clock, src_bucket, src_key, raw_body, file_content, lines,
                   lineNo, transformed_lines, reads, clock_reads, error, result>>

\* Lines 89-94: s3.put_object raises; nothing catches it.
PutObjectFails ==
    /\ pc = "lines"
    /\ lineNo > Len(lines)
    /\ transformed_lines # <<>>
    /\ writes' = Append(writes, PutRequest(FALSE))
    /\ error' = "ClientError"
    /\ pc' = "raised"
    /\ UNCHANGED <<event, store, clock, i, src_bucket, src_key, raw_body, file_content,
                   lines, lineNo, transformed_lines, reads, clock_reads, result>>

\* Return with a status that tells whether anything was written.
Return_ReportsWrites ==
    /\ pc = "loop"
    /\ i > Len(Records)
    /\ result' = <<[status |-> IF writes = <<>> THEN "empty" ELSE "ok"]>>
    /\ pc' = "returned"
    /\ UNCHANGED <<event, store, clock, i, src_bucket, src_key, raw_body, file_content,
                   lines, lineNo, transformed_lines, reads, writes, clock_reads, error>>

\* Line 96, after the last record.
Return ==
    /\ pc = "loop"
    /\ i > Len(Records)
    /\ result' = <<[status |-> "ok"]>>
    /\ pc' = "returned"
    /\ UNCHANGED <<event, store, clock, i, src_bucket, src_key, raw_body, file_content,
                   lines, lineNo, transformed_lines, reads, writes, clock_reads, error>>

\* Time passes while the handler runs.
Tick ==
    /\ pc \notin {"returned", "raised"}
    /\ clock < MaxClock
    /\ clock' = clock + 1
    /\ UNCHANGED <<event, store, pc, i, src_bucket, src_key, raw_body, file_content,
                   lines, lineNo, transformed_lines, reads, writes, clock_reads, error,
                   result>>

Next ==
    \/ GetObject
    \/ GetObjectFails
    \/ Decompress
    \/ DecompressFails
    \/ SkipLine
    \/ TransformLine
    \/ LineRaises
    \/ SkipWrite
    \/ PutObject
    \/ PutObjectFails
    \/ Return
    \/ Tick

Spec ==
    Init /\ [][Next]_vars

SpecRecords ==
    InitRecords /\ [][Next]_vars

SpecKeys ==
    InitKeys /\ [][Next]_vars

(***************************************************************************)
(* Vocabulary of the properties.                                           *)
(***************************************************************************)
\* raw/year=2025/month=11/day=26/file.gz
KeyPartitioned ==
    <<"r", "a", "w", "/", "y", "e", "a", "r", "=", "2", "0", "2", "5", "/",
      "m", "o", "n", "t", "h", "=", "1", "1", "/", "d", "a", "y", "=", "2", "6", "/",
      "f", "i", "l", "e", ".", "g", "z">>

\* processed/year=2025/month=11/day=26/filejson
DestPartitioned ==
    <<"p", "r", "o", "c", "e", "s", "s", "e", "d", "/", "y", "e", "a", "r", "=",
      "2", "0", "2", "5", "/", "m", "o", "n", "t", "h", "=", "1", "1", "/",
      "d", "a", "y", "=", "2", "6", "/", "f", "i", "l", "e", "j", "s", "o", "n">>

\* processed/year=2025/month=11/day=26/file.json
DestPartitionedDotJson ==
    <<"p", "r", "o", "c", "e", "s", "s", "e", "d", "/", "y", "e", "a", "r", "=",
      "2", "0", "2", "5", "/", "m", "o", "n", "t", "h", "=", "1", "1", "/",
      "d", "a", "y", "=", "2", "6", "/", "f", "i", "l", "e", ".", "j", "s", "o", "n">>

\* processed/other/path/datajson
DestOther ==
    <<"p", "r", "o", "c", "e", "s", "s", "e", "d", "/", "o", "t", "h", "e", "r", "/",
      "p", "a", "t", "h", "/", "d", "a", "t", "a", "j", "s", "o", "n">>

RawPrefix ==
    <<"r", "a", "w", "/">>

ProcessedPrefix ==
    <<"p", "r", "o", "c", "e", "s", "s", "e", "d", "/">>

DotGz ==
    <<".", "g", "z">>

DotJson ==
    <<".", "j", "s", "o", "n">>

JsonWord ==
    <<"j", "s", "o", "n">>

\* The decoded documents of the non-blank lines of a text, in order.
DocsOf(text) ==
    LET ls == splitlines(text)
        docs == [j \in 1..Len(ls) |-> loads(strip(ls[j]))]
        nonblank == {j \in 1..Len(ls) : strip(ls[j]) # <<>>}
        Pick[j \in 0..Len(ls)] ==
            IF j = 0 THEN <<>>
            ELSE IF j \in nonblank THEN Append(Pick[j - 1], docs[j]) ELSE Pick[j - 1]
    IN  Pick[Len(ls)]

IsDict(doc) ==
    doc.kind = "dict"

\* The dicts among the documents of a text, in order: its records.
RecordsOf(text) ==
    SelectSeq(DocsOf(text), IsDict)

\* Every non-blank line of the text is a JSON object or fails to parse.
OnlyObjectsAndGarbage(text) ==
    \A j \in 1..Len(DocsOf(text)) : DocsOf(text)[j].kind \in {"dict", "JSONDecodeError"}

HasGarbage(text) ==
    \E j \in 1..Len(DocsOf(text)) : DocsOf(text)[j].kind = "JSONDecodeError"

\* The (key, value) pairs of a record, and its keys.
Pairs(doc) ==
    {doc.items[j] : j \in 1..Len(doc.items)}

Keys(doc) ==
    {doc.items[j][1] : j \in 1..Len(doc.items)}

\* The pairs of a record other than those of user_id and processed_ts.
Payload(doc) ==
    {p \in Pairs(doc) : p[1] \notin {UserIdKey, ProcessedTsKey}}

\* The text the handler read for the write w, and the records written.
InputOf(w) ==
    reads[w.n].Body.text

OutputOf(w) ==
    [j \in 1..Len(splitlines(w.Body)) |-> loads(splitlines(w.Body)[j])]

WritesFor(n) ==
    {q \in 1..Len(writes) : writes[q].n = n}

(***************************************************************************)
(* Properties of the line loop (lines 45-65), checked under SpecRecords.   *)
(***************************************************************************)
\* C1: when every non-blank line of the input is a JSON object or fails to
\* parse, the written body has exactly one line per JSON-object line, in the
\* input's order (the output record carries the input record's payload), and
\* the line loop raises nothing.
C1_OneOutputLinePerObjectLine ==
    /\ \A q \in 1..Len(writes) :
         LET inp == RecordsOf(InputOf(writes[q]))
             out == OutputOf(writes[q])
         IN  OnlyObjectsAndGarbage(InputOf(writes[q])) =>
                /\ Len(out) = Len(inp)
                /\ \A j \in 1..Len(out) :
                     out[j].kind = "dict" /\ Payload(out[j]) = Payload(inp[j])
    /\ pc \in {"lines", "raised"} /\ OnlyObjectsAndGarbage(file_content) =>
         error \notin {"AttributeError", "TypeError", "JSONDecodeError"}

\* A body of two different records was written from an input that also held
\* a line that fails to parse.
C1_Witness ==
    \E q \in 1..Len(writes) :
        /\ HasGarbage(InputOf(writes[q]))
        /\ Len(OutputOf(writes[q])) = 2
        /\ Payload(OutputOf(writes[q])[1]) # Payload(OutputOf(writes[q])[2])

\* C2: no single line makes lambda_handler raise: whatever a line holds
\* (blank, unparseable, or JSON that is no object), the line loop skips or
\* transforms it.
C2_NoLineFailsTheObject ==
    error \notin {"AttributeError", "TypeError"}

\* C3: no written record has a user_id key, and every other key of the input
\* record, processed_ts excepted, is in the output record with its value.
C3_UserIdRemovedRestKept ==
    \A q \in 1..Len(writes) :
        LET inp == RecordsOf(InputOf(writes[q]))
            out == OutputOf(writes[q])
        IN  /\ Len(out) = Len(inp)
            /\ \A j \in 1..Len(out) :
                 /\ UserIdKey \notin Keys(out[j])
                 /\ \A p \in Pairs(inp[j]) :
                      p[1] \notin {UserIdKey, ProcessedTsKey} => p \in Pairs(out[j])

\* A written body came from a record with user_id and other keys and from a
\* record without user_id.
C3_Witness ==
    \E q \in 1..Len(writes) :
        LET inp == RecordsOf(InputOf(writes[q]))
        IN  /\ Len(OutputOf(writes[q])) >= 2
            /\ \E j \in 1..Len(inp) : UserIdKey \in Keys(inp[j]) /\ Payload(inp[j]) # {}
            /\ \E j \in 1..Len(inp) : UserIdKey \notin Keys(inp[j])

\* C4: every written record has processed_ts, holding the clock reading
\* taken for that record (whatever processed_ts the input had), and the clock
\* is read once per record.
C4_TimestampPerRecord ==
    /\ pc = "lines" => Len(clock_reads) = Len(transformed_lines)
    /\ \A q \in 1..Len(writes) :
         LET out == OutputOf(writes[q])
         IN  /\ Len(writes[q].stamps) = Len(out)
             /\ \A j \in 1..Len(out) :
                  {p \in Pairs(out[j]) : p[1] = ProcessedTsKey}
                      = {<<ProcessedTsKey, isoformat(writes[q].stamps[j])>>}

\* Two records of one object were written with different clock readings, one
\* of them from an input record that had a processed_ts of its own.
C4_Witness ==
    \E q \in 1..Len(writes) :
        /\ Len(writes[q].stamps) = 2
        /\ writes[q].stamps[1] # writes[q].stamps[2]
        /\ \E j \in 1..2 : ProcessedTsKey \in Keys(RecordsOf(InputOf(writes[q]))[j])

C7_DotJsonSuffix ==
    \A q \in 1..Len(writes) :
        /\ endswith(writes[q].src, DotGz) => endswith(writes[q].Key, DotJson)
        /\ writes[q].src = KeyPartitioned => writes[q].Key = DestPartitionedDotJson

(***************************************************************************)
(* Properties of a whole invocation, checked under Spec.                   *)
(***************************************************************************)
\* C5: when lambda_handler returns, it has issued exactly one read per
\* notification, and for each notification exactly one write if the object
\* read held at least one record and no write if it held none; the write
\* goes to the bucket that was read, with content type application/json.
C5_OneReadAndWriteIffRecords ==
    pc = "returned" =>
        /\ Len(reads) = Len(Records)
        /\ \A n \in 1..Len(reads) :
             /\ reads[n].n = n
             /\ Cardinality(WritesFor(n)) =
                    IF Len(RecordsOf(reads[n].Body.text)) >= 1 THEN 1 ELSE 0
             /\ \A q \in WritesFor(n) :
                    /\ writes[q].Bucket = reads[n].Bucket
                    /\ writes[q].Bucket = Records[n].bucket
                    /\ writes[q].ContentType = "application/json"

\* An invocation returned after writing for one notification and skipping
\* the write for another.
C5_Witness ==
    /\ pc = "returned"
    /\ Len(reads) >= 2
    /\ \E n \in 1..Len(reads) : WritesFor(n) # {}
    /\ \E n \in 1..Len(reads) : WritesFor(n) = {}

\* C8: notifications are taken in array order, and a failed read,
\* decompression or write for notification k leaves lambda_handler raised:
\* no result, and no read or write for any later notification.
C8_FailureAbortsTheBatch ==
    /\ \A n \in 1..Len(reads) :
         /\ reads[n].n = n
         /\ reads[n].Bucket = Records[n].bucket
         /\ reads[n].Key = unquote_plus(Records[n].key)
         /\ ~reads[n].ok => n = Len(reads) /\ pc = "raised"
    /\ \A q \in 1..Len(writes) :
         /\ writes[q].n <= Len(reads)
         /\ \A r \in 1..(q - 1) : writes[r].n < writes[q].n
         /\ ~writes[q].ok => q = Len(writes) /\ writes[q].n = Len(reads) /\ pc = "raised"
    /\ error # "" => pc = "raised"
    /\ pc = "raised" =>
         /\ error # ""
         /\ result = <<>>
         /\ Len(reads) = i
         /\ ~ENABLED Next

\* The read for notification 2 of 3 failed.
C8_Witness ==
    /\ pc = "raised"
    /\ Len(Records) = 3
    /\ Len(reads) = 2
    /\ ~reads[2].ok

\* C9 as stated: no write goes to a (bucket, key) that the invocation reads
\* as a source object.
C9_NoWriteToAnySource ==
    \A q \in 1..Len(writes) : \A n \in 1..Len(reads) :
        Location(writes[q].Bucket, writes[q].Key) # Location(reads[n].Bucket, reads[n].Key)

\* C9, amended: every destination key starts with processed/ and differs
\* from the decoded source key of its notification, and a write goes to a
\* (bucket, key) the invocation reads only when that source key itself
\* starts with processed/.
C9_NoWriteToSourceOutsideProcessed ==
    \A q \in 1..Len(writes) :
        /\ startswith(writes[q].Key, ProcessedPrefix)
        /\ writes[q].Key # writes[q].src
        /\ writes[q].src = reads[writes[q].n].Key
        /\ \A n \in 1..Len(reads) :
             Location(writes[q].Bucket, writes[q].Key)
                    = Location(reads[n].Bucket, reads[n].Key)
                => startswith(reads[n].Key, ProcessedPrefix)

\* Two objects of one bucket were read, one of them under raw/, and one was
\* written.
C9_Witness ==
    /\ Len(writes) >= 1
    /\ Len(reads) >= 2
    /\ \E n \in 1..Len(reads) :
         /\ startswith(reads[n].Key, RawPrefix)
         /\ reads[n].Bucket = writes[1].Bucket
         /\ reads[n].n # writes[1].n

\* C10: lambda_handler returns the fixed result {status: ok} whenever it
\* returns, for any batch (an event without Records and an empty batch
\* included), and has no result otherwise.
C10_FixedStatus ==
    /\ pc = "returned" => result = <<[status |-> "ok"]>>
    /\ pc # "returned" => result = <<>>

\* An invocation returned after writing for some notifications only.
C10_Witness ==
    /\ pc = "returned"
    /\ result = <<[status |-> "ok"]>>
    /\ Len(writes) >= 1
    /\ Len(writes) < Len(reads)

====
